---- MODULE Spec2Model ----
(***************************************************************************)
(* Model of services/rate_limiter.py: RateLimiter.wait_if_needed (the rate *)
(* gate, an asyncio.Lock around prune / capacity checks / append) and      *)
(* ClioAPIClient.request (the retry loop around the gate and one HTTP      *)
(* attempt).  Time is the integer wall clock read by time.time(), in       *)
(* seconds.  Every await of the code is a separate step of the model.      *)
(* The module also models ClioAPIClient.paginated_request / get_all, the   *)
(* pattern tables and process_query of nlp/processor.py, and the CLI path  *)
(* CLIManager.execute_command -> CLIService.execute_command.               *)
(***************************************************************************)
EXTENDS Integers, Sequences, FiniteSets, TLC

\* ------------------------------------------------------------------ bounds
\* Number of concurrent callers (asyncio tasks) using one limiter.
NumCallers == 2
\* Total number of entries into wait_if_needed over one behaviour.
MaxCalls == 4
\* Number of times the environment lets the wall clock advance.
MaxTicks == 2
\* Largest lateness, in seconds, with which a finished sleep is resumed.
Slack == 30
\* Largest max_retries argument passed to request.
MaxR == 2
\* Largest number of pages an endpoint serves.
MaxPages == 2
\* Largest number of phrases a query is put together from.
MaxWords == 2
\* number of process_query calls on one processor
MaxQueries == 3
\* RateLimiter(requests_per_minute, requests_per_hour) of the instance modelled.
requests_per_minute == 1
requests_per_hour == 3

\* ------------------------------------------------------- program constants
MinuteWindow == 60
HourWindow == 3600
\* _calculate_confidence in thousandths: 0.1 without a call, else 0.5, plus
\* 0.3 / total_patterns per matching pattern, plus 0.1, at most 1.0
NoMatchConfidence == 100
BaseConfidence == 500
PatternBonus == 300
MultiCallBonus == 100
ConfidenceCap == 1000
\* `min(per_page, 200)` and the default of per_page
MaxPerPage == 200
DefaultPerPage == 50

Callers == 1..NumCallers
\* The one task that calls ClioAPIClient.request in SpecRequest.
Requester == 1
\* Amounts by which the wall clock may jump between two steps.
TickSteps == {30, MinuteWindow, HourWindow}

VARIABLES
    clock,          \* time.time()
    ticks,          \* how often the clock has advanced
    request_times,  \* RateLimiter.request_times
    lock,           \* RateLimiter._lock: 0 when free, else the holder
    pc,             \* per caller: where the coroutine is suspended
    now,            \* per caller: local `now` of wait_if_needed
    wake,           \* per caller: clock value at which its asyncio.sleep ends
    ret,            \* per caller: who awaits wait_if_needed ("direct"/"request")
    calls,          \* number of wait_if_needed calls started
    completions,    \* history: real times at which wait_if_needed returned
    auth_token,     \* ClioAPIClient.auth_token ("" stands for None or "")
    max_retries,    \* per caller: argument of request
    attempt,        \* per caller: loop variable of request
    outcome,        \* per caller: "none", "returned" or the exception raised
    carried,        \* per caller: <<r>> when the response returned, the
                    \* exception's .response or the transport exception
                    \* re-raised is r; <<>> when there is none
    log,            \* per caller, history: HTTP attempts and sleeps of request
    cancelled_at,   \* per caller, history: where its task was cancelled
                    \* ("none" while it was not)
    times0,         \* history: request_times when request was called
    pg_pc,          \* paginated_request: "idle", "fetch", "done", "raised"
                    \* (by self.request) or "crashed" (by its own code)
    server,         \* the pages the endpoint serves, in order
    params_arg,     \* `params` as passed by the caller of paginated_request
    params,         \* the dict paginated_request works on
    caller_params,  \* the caller's mapping as the caller sees it now (the
                    \* same object as `params` when one was passed)
    per_page,       \* argument per_page of paginated_request
    page,           \* local `page` of paginated_request
    items_out,      \* items yielded so far (the list get_all builds)
    sent,           \* history: the params of every request issued
    times_of,       \* per limiter of SpecClients: RateLimiter.request_times
    lock_of,        \* per limiter of SpecClients: holder of RateLimiter._lock
    cli_pc,         \* CLI execution: "idle", then "manager" or "service" once
                    \* the execute_command of that class has ended
    proc,           \* the service executable and what its process gives
    cli_result,     \* what execute_command returned, or its exception
    self_api_patterns,  \* NLPProcessor.api_patterns
    self_cli_patterns,  \* NLPProcessor.cli_patterns
    outputs,        \* history: query and result of every process_query call
    nlp_pc,         \* process_query: "idle" before the call, "done" after
    query,          \* argument `query` of process_query
    query_lower,    \* local `query_lower` of process_query
    api_match,      \* local `api_match` of process_query (<<>> stands for None)
    cli_match,      \* local `cli_match` of process_query (<<>> stands for None)
    result          \* the dict process_query returned

clientVars == <<clock, ticks, request_times, lock, pc, now, wake, ret, calls,
                completions, auth_token, max_retries, attempt, outcome,
                carried, log, cancelled_at, times0>>
pageVars == <<pg_pc, server, params_arg, params, caller_params, per_page,
              page, items_out, sent>>
\* what the actions of RateLimiter and ClioAPIClient.request leave alone
nlpVars == <<nlp_pc, query, query_lower, api_match, cli_match, result,
            self_api_patterns, self_cli_patterns, outputs>>
\* the limiters of several clients side by side
limVars == <<times_of, lock_of>>
\* execution of a CLI command
cliVars == <<cli_pc, proc, cli_result>>
otherVars == <<pageVars, nlpVars, limVars, cliVars>>

vars == <<clientVars, otherVars>>

gateVars == <<request_times, lock, now, wake, completions>>
reqVars == <<auth_token, max_retries, attempt, outcome, carried, log,
            cancelled_at, times0>>

\* --------------------------------------------------------- pure helpers
\* [t for t in request_times if t > hour_ago], hour_ago = now - 3600
Prune(times, n) == SelectSeq(times, LAMBDA t : t > n - HourWindow)

\* [t for t in request_times if t > minute_ago], minute_ago = now - 60
RecentRequests(times, n) == SelectSeq(times, LAMBDA t : t > n - MinuteWindow)

\* len(self.request_times) >= self.requests_per_hour
HourFull(times) == Len(times) >= requests_per_hour

\* len(recent_requests) >= self.requests_per_minute
\* fault variant: `>` in place of `>=`
MinuteFullMut(recent) == Len(recent) > requests_per_minute
MinuteFull(recent) == Len(recent) >= requests_per_minute

\* sleep_time = 3600 - (now - self.request_times[0])
HourSleepTime(times, n) == HourWindow - (n - times[1])
\* sleep_time = 60 - (now - recent_requests[0])
MinuteSleepTime(recent, n) == MinuteWindow - (n - recent[1])

\* asyncio.Lock: acquire succeeds only when nobody holds the lock
\* fault variant: the block is not guarded by the lock
LockFreeMut == TRUE
LockFree == lock = 0

\* ------------------------------------------------------------- the clock
\* pc values at which a coroutine is inside asyncio.sleep
Sleeping == {"hoursleep", "minutesleep", "sleep"}
Sleepers == {c \in Callers : pc[c] \in Sleeping}

\* asyncio.sleep(d) returns no earlier than d seconds after it was called;
\* the event loop resumes the sleeper at most Slack seconds late.
Tick(d) ==
    /\ ticks < MaxTicks
    /\ \A c \in Sleepers : clock + d <= wake[c] + Slack
    /\ clock' = clock + d
    /\ ticks' = ticks + 1
    /\ UNCHANGED <<pc, ret, calls>>
    /\ UNCHANGED gateVars
    /\ UNCHANGED reqVars
    /\ UNCHANGED otherVars

\* time passes up to the earliest pending deadline of a sleeper
TickToWake ==
    /\ \E c \in Sleepers :
          /\ wake[c] > clock
          /\ \A o \in Sleepers : wake[c] <= wake[o]
          /\ clock' = wake[c]
    /\ UNCHANGED <<ticks, pc, ret, calls>>
    /\ UNCHANGED gateVars
    /\ UNCHANGED reqVars
    /\ UNCHANGED otherVars

\* ------------------------------------------- RateLimiter.wait_if_needed
\* The coroutine yields only at an await that suspends: at the lock when it
\* is held, and inside the two asyncio.sleep calls.  Each action below runs
\* from one suspension point to the next.

\* lines 42-49 of wait_if_needed, run on the list `times`
MinutePart(c, times) ==
    LET recent == RecentRequests(times, now'[c]) IN
    IF MinuteFull(recent)
    THEN /\ wake' = [wake EXCEPT ![c] =
                        clock + MinuteSleepTime(recent, now'[c])]
         /\ pc' = [pc EXCEPT ![c] = "minutesleep"]
         /\ lock' = c
         /\ request_times' = times
         /\ UNCHANGED completions
    ELSE /\ request_times' = Append(times, now'[c])
         /\ completions' = Append(completions, clock)
         /\ lock' = 0
         /\ pc' = [pc EXCEPT ![c] = IF ret[c] = "direct" THEN "idle" ELSE "http"]
         /\ UNCHANGED wake

\* A task calls `await limiter.wait_if_needed()` directly.
WaitIfNeeded(c) ==
    /\ pc[c] = "idle"
    /\ calls < MaxCalls
    /\ calls' = calls + 1
    /\ pc' = [pc EXCEPT ![c] = "lock"]
    /\ ret' = [ret EXCEPT ![c] = "direct"]
    /\ UNCHANGED <<clock, ticks>>
    /\ UNCHANGED gateVars
    /\ UNCHANGED reqVars
    /\ UNCHANGED otherVars

\* async with self._lock: now = time.time(); prune; hourly check; then either
\* the hourly sleep starts or the per-minute part runs
Enter(c) ==
    /\ pc[c] = "lock"
    /\ LockFree
    /\ now' = [now EXCEPT ![c] = clock]
    /\ LET pruned == Prune(request_times, clock) IN
       IF HourFull(pruned)
       THEN /\ wake' = [wake EXCEPT ![c] = clock + HourSleepTime(pruned, clock)]
            /\ pc' = [pc EXCEPT ![c] = "hoursleep"]
            /\ lock' = c
            /\ request_times' = pruned
            /\ UNCHANGED completions
       ELSE MinutePart(c, pruned)
    /\ UNCHANGED <<clock, ticks, ret, calls>>
    /\ UNCHANGED reqVars
    /\ UNCHANGED otherVars

\* the hourly asyncio.sleep returns; the per-minute part runs
HourWake(c) ==
    /\ pc[c] = "hoursleep"
    /\ clock >= wake[c]
    /\ UNCHANGED now
    /\ MinutePart(c, request_times)
    /\ UNCHANGED <<clock, ticks, ret, calls>>
    /\ UNCHANGED reqVars
    /\ UNCHANGED otherVars

\* fault variant: the call returns after its sleep without recording itself
MinuteWakeNoAppend(c) ==
    /\ pc[c] = "minutesleep"
    /\ clock >= wake[c]
    /\ lock' = 0
    /\ pc' = [pc EXCEPT ![c] = IF ret[c] = "direct" THEN "idle" ELSE "http"]
    /\ UNCHANGED <<clock, ticks, ret, calls, wake, now, request_times,
                   completions>>
    /\ UNCHANGED reqVars
    /\ UNCHANGED otherVars

\* fault variant: the call returns after its sleep with the lock still held
MinuteWakeKeepsLock(c) ==
    /\ pc[c] = "minutesleep"
    /\ clock >= wake[c]
    /\ UNCHANGED now
    /\ request_times' = Append(request_times, now[c])
    /\ completions' = Append(completions, clock)
    /\ UNCHANGED lock
    /\ pc' = [pc EXCEPT ![c] = IF ret[c] = "direct" THEN "idle" ELSE "http"]
    /\ UNCHANGED <<clock, ticks, ret, calls, wake>>
    /\ UNCHANGED reqVars
    /\ UNCHANGED otherVars

\* the per-minute asyncio.sleep returns; append and return
MinuteWake(c) ==
    /\ pc[c] = "minutesleep"
    /\ clock >= wake[c]
    /\ UNCHANGED now
    /\ request_times' = Append(request_times, now[c])
    /\ completions' = Append(completions, clock)
    /\ lock' = 0
    /\ pc' = [pc EXCEPT ![c] = IF ret[c] = "direct" THEN "idle" ELSE "http"]
    /\ UNCHANGED <<clock, ticks, ret, calls, wake>>
    /\ UNCHANGED reqVars
    /\ UNCHANGED otherVars

\* --------------------------------------------------- ClioAPIClient.request
\* What the transport gives back for one HTTP attempt: a response with a
\* status code and a Retry-After header (a string of decimal digits, <<>>
\* when the header is absent), or status 0 for a raised httpx.RequestError.
TransportError == 0
Responses ==
    { [status |-> 200, ra |-> <<>>],
      [status |-> 400, ra |-> <<>>],
      [status |-> 404, ra |-> <<>>],
      [status |-> 429, ra |-> <<3>>],
      [status |-> 429, ra |-> <<>>],
      [status |-> 500, ra |-> <<>>],
      [status |-> 503, ra |-> <<>>],
      [status |-> TransportError, ra |-> <<>>] }

\* int(retry_after) on a string of decimal digits
RECURSIVE IntOf(_)
IntOf(digits) ==
    IF digits = <<>> THEN 0
    ELSE 10 * IntOf(SubSeq(digits, 1, Len(digits) - 1)) + digits[Len(digits)]

\* `if not self.auth_token`
\* fault variant: the token check is missing
TokenMissingMut(tok) == FALSE
TokenMissing(tok) == tok = ""

\* `if response.status_code == 429` and `if retry_after`
HasRetryAfter(r) == r.status = 429 /\ Len(r.ra) > 0

\* `if response.status_code >= 400`
IsErrorStatus(status) == status >= 400

\* `if attempt < max_retries and response.status_code >= 500`
\* fault variants: client errors retried too; one retry too many
RetryStatusMut(a, R, status) == a < R /\ status >= 400
RetryStatusOffByOne(a, R, status) == a <= R /\ status >= 500
RetryStatus(a, R, status) == a < R /\ status >= 500

\* `if attempt < max_retries` of the RequestError handler
\* fault variant: one retry too many
RetryTransportMut(a, R) == a <= R
RetryTransport(a, R) == a < R

\* sleep_time = 2 ** attempt
Backoff(a) == 2 ^ a

\* entries of the history `log`: an HTTP attempt that ended at time t with
\* status v and Retry-After header h; an asyncio.sleep(v) called at time t
HttpEvent(r) == [kind |-> "http", v |-> r.status, h |-> r.ra, t |-> clock]
SleepEvent(d) == [kind |-> "sleep", v |-> d, h |-> <<>>, t |-> clock]

\* request(...) is called: token check, then the first loop iteration
\* reaches `await self.rate_limiter.wait_if_needed()`
Request(c, R) ==
    /\ pc[c] = "idle"
    /\ outcome[c] = "none"
    /\ max_retries' = [max_retries EXCEPT ![c] = R]
    /\ times0' = request_times
    /\ IF TokenMissing(auth_token)
       THEN /\ outcome' = [outcome EXCEPT ![c] = "ValueError"]
            /\ pc' = [pc EXCEPT ![c] = "done"]
            /\ UNCHANGED <<attempt, ret, calls>>
       ELSE /\ attempt' = [attempt EXCEPT ![c] = 0]
            /\ pc' = [pc EXCEPT ![c] = "lock"]
            /\ ret' = [ret EXCEPT ![c] = "request"]
            /\ calls' = calls + 1
            /\ UNCHANGED outcome
    /\ UNCHANGED <<clock, ticks, auth_token, log, carried, cancelled_at>>
    /\ UNCHANGED gateVars
    /\ UNCHANGED otherVars

\* the body of `await asyncio.sleep(d); continue` up to the suspension
StartSleep(c, r, d) ==
    /\ log' = [log EXCEPT ![c] = log[c] \o <<HttpEvent(r), SleepEvent(d)>>]
    /\ wake' = [wake EXCEPT ![c] = clock + d]
    /\ pc' = [pc EXCEPT ![c] = "sleep"]
    /\ UNCHANGED <<outcome, carried>>

\* the coroutine ends: `return response` or an exception leaves request
Finish(c, r, how) ==
    /\ log' = [log EXCEPT ![c] = Append(log[c], HttpEvent(r))]
    /\ outcome' = [outcome EXCEPT ![c] = how]
    /\ carried' = [carried EXCEPT ![c] = <<r>>]
    /\ pc' = [pc EXCEPT ![c] = "done"]
    /\ UNCHANGED wake

\* `await self.client.request(...)` completes with r; lines 110-137
Http(c, r) ==
    /\ pc[c] = "http"
    /\ IF r.status = TransportError
       THEN IF RetryTransport(attempt[c], max_retries[c])
            THEN StartSleep(c, r, Backoff(attempt[c]))
            ELSE Finish(c, r, "RequestError")
       ELSE IF HasRetryAfter(r)
            THEN StartSleep(c, r, IntOf(r.ra))
            ELSE IF IsErrorStatus(r.status)
                 THEN IF RetryStatus(attempt[c], max_retries[c], r.status)
                      THEN StartSleep(c, r, Backoff(attempt[c]))
                      ELSE Finish(c, r, "HTTPStatusError")
                 ELSE Finish(c, r, "returned")
    /\ UNCHANGED <<clock, ticks, ret, calls, request_times, lock, now,
                   completions, auth_token, max_retries, attempt, times0,
                   cancelled_at>>
    /\ UNCHANGED otherVars

\* fault variant: the loop runs over range(max_retries + 2)
SleepDoneOneMore(c) ==
    /\ pc[c] = "sleep"
    /\ clock >= wake[c]
    /\ IF attempt[c] + 1 <= max_retries[c] + 1
       THEN /\ attempt' = [attempt EXCEPT ![c] = attempt[c] + 1]
            /\ pc' = [pc EXCEPT ![c] = "lock"]
            /\ calls' = calls + 1
            /\ UNCHANGED <<outcome, carried>>
       ELSE \* httpx.HTTPError(f"Max retries ({max_retries}) exceeded")
            /\ outcome' = [outcome EXCEPT ![c] = "HTTPError"]
            /\ carried' = [carried EXCEPT ![c] = <<>>]
            /\ pc' = [pc EXCEPT ![c] = "done"]
            /\ UNCHANGED <<attempt, calls>>
    /\ UNCHANGED <<clock, ticks, ret, auth_token, max_retries, log, times0,
                   cancelled_at>>
    /\ UNCHANGED gateVars
    /\ UNCHANGED otherVars

\* asyncio.sleep returns and `continue` runs: the next iteration of
\* `for attempt in range(max_retries + 1)`, or line 139 when the range is
\* exhausted
SleepDone(c) ==
    /\ pc[c] = "sleep"
    /\ clock >= wake[c]
    /\ IF attempt[c] + 1 <= max_retries[c]
       THEN /\ attempt' = [attempt EXCEPT ![c] = attempt[c] + 1]
            /\ pc' = [pc EXCEPT ![c] = "lock"]
            /\ calls' = calls + 1
            /\ UNCHANGED <<outcome, carried>>
       ELSE \* httpx.HTTPError(f"Max retries ({max_retries}) exceeded")
            /\ outcome' = [outcome EXCEPT ![c] = "HTTPError"]
            /\ carried' = [carried EXCEPT ![c] = <<>>]
            /\ pc' = [pc EXCEPT ![c] = "done"]
            /\ UNCHANGED <<attempt, calls>>
    /\ UNCHANGED <<clock, ticks, ret, auth_token, max_retries, log, times0,
                   cancelled_at>>
    /\ UNCHANGED gateVars
    /\ UNCHANGED otherVars

\* ------------------------------------------ several clients in one process
\* Two ClioAPIClient objects; caller 1 issues its requests through client 1,
\* every other caller through client 2.
Clients == {1, 2}
ClientOf(c) == IF c = Requester THEN 1 ELSE 2

\* fault variant: one limiter for every client (request_times and _lock as
\* attributes of the class, or a limiter created once at module level)
LimiterShared(c) == 1
\* ClioAPIClient.__init__: self.rate_limiter = RateLimiter(), and
\* RateLimiter.__init__ gives the new limiter a list and a lock of its own;
\* limiter k is the one created for client k
LimiterOf(c) == ClientOf(c)

\* lines 42-49 of wait_if_needed on limiter l, run on the list `times`
ClientMinutePart(c, l, times) ==
    LET recent == RecentRequests(times, now'[c]) IN
    IF MinuteFull(recent)
    THEN /\ wake' = [wake EXCEPT ![c] =
                        clock + MinuteSleepTime(recent, now'[c])]
         /\ pc' = [pc EXCEPT ![c] = "minutesleep"]
         /\ lock_of' = [lock_of EXCEPT ![l] = c]
         /\ times_of' = [times_of EXCEPT ![l] = times]
    ELSE /\ times_of' = [times_of EXCEPT ![l] = Append(times, now'[c])]
         /\ lock_of' = [lock_of EXCEPT ![l] = 0]
         /\ pc' = [pc EXCEPT ![c] = "idle"]
         /\ UNCHANGED wake

\* lines 28-39 of self.rate_limiter.wait_if_needed() for a caller of client
\* ClientOf(c), then the per-minute part or the hourly sleep
ClientEnter(c) ==
    LET l == LimiterOf(c) IN
    /\ pc[c] = "lock"
    /\ lock_of[l] = 0
    /\ now' = [now EXCEPT ![c] = clock]
    /\ LET pruned == Prune(times_of[l], clock) IN
       IF HourFull(pruned)
       THEN /\ wake' = [wake EXCEPT ![c] = clock + HourSleepTime(pruned, clock)]
            /\ pc' = [pc EXCEPT ![c] = "hoursleep"]
            /\ lock_of' = [lock_of EXCEPT ![l] = c]
            /\ times_of' = [times_of EXCEPT ![l] = pruned]
       ELSE ClientMinutePart(c, l, pruned)
    /\ UNCHANGED <<clock, ticks, ret, calls, request_times, lock, completions>>
    /\ UNCHANGED reqVars
    /\ UNCHANGED <<pageVars, nlpVars, cliVars>>

\* the hourly asyncio.sleep returns; the per-minute part runs
ClientHourWake(c) ==
    /\ pc[c] = "hoursleep"
    /\ clock >= wake[c]
    /\ UNCHANGED now
    /\ ClientMinutePart(c, LimiterOf(c), times_of[LimiterOf(c)])
    /\ UNCHANGED <<clock, ticks, ret, calls, request_times, lock, completions>>
    /\ UNCHANGED reqVars
    /\ UNCHANGED <<pageVars, nlpVars, cliVars>>

\* the per-minute asyncio.sleep returns; append and return
ClientMinuteWake(c) ==
    LET l == LimiterOf(c) IN
    /\ pc[c] = "minutesleep"
    /\ clock >= wake[c]
    /\ times_of' = [times_of EXCEPT ![l] = Append(times_of[l], now[c])]
    /\ lock_of' = [lock_of EXCEPT ![l] = 0]
    /\ pc' = [pc EXCEPT ![c] = "idle"]
    /\ UNCHANGED <<clock, ticks, ret, calls, request_times, lock, completions,
                   now, wake>>
    /\ UNCHANGED reqVars
    /\ UNCHANGED <<pageVars, nlpVars, cliVars>>

\* ------------------------------------------------------ task cancellation
\* the awaits at which a task inside request is suspended
Suspended == {"lock", "http"} \cup Sleeping

\* fault variant: the lock is taken and given back without `async with`, so
\* an exception raised while it is held leaves it held
ReleasedByMut(c, l) == l
\* `async with self._lock`: __aexit__ releases the lock the task holds when
\* an exception leaves the block
ReleasedBy(c, l) == IF l = c THEN 0 ELSE l

\* task.cancel() on the task of caller c: CancelledError is raised at the
\* await the task is suspended in.  It is not an httpx.RequestError, so the
\* handler of lines 131-137 does not catch it; it leaves the lock block, the
\* loop, and request.
Cancel(c) ==
    /\ pc[c] \in Suspended
    /\ cancelled_at' = [cancelled_at EXCEPT ![c] = pc[c]]
    /\ pc' = [pc EXCEPT ![c] = "cancelled"]
    /\ outcome' = [outcome EXCEPT ![c] = "CancelledError"]
    /\ lock' = ReleasedBy(c, lock)
    /\ UNCHANGED <<clock, ticks, ret, calls, request_times, now, wake,
                   completions, auth_token, max_retries, attempt, carried,
                   log, times0>>
    /\ UNCHANGED otherVars

\* ------------------------------ ClioAPIClient.paginated_request / get_all
\* A Python dict with string keys is a function on its set of keys.
EmptyDict == [k \in {} |-> 0]
\* d[k] = v
Put(d, k, v) == [x \in DOMAIN d \cup {k} |-> IF x = k THEN v ELSE d[x]]

\* The JSON body of one page: shape "list" is {"data": [...], "meta": ..},
\* "object" is {"data": {...}, "meta": ..} (data holds the one item),
\* "nodata" is a dict without a "data" key (data holds the body itself as
\* the one item), "array" is a top-level JSON array of items; next tells
\* whether meta.paging.next is present (an array has no meta).
PageBodies ==
    { [shape |-> sh, data |-> d, next |-> nx] :
        sh \in {"list"}, d \in {<<>>, <<1>>, <<2, 1>>, <<1, 1>>},
        nx \in BOOLEAN }
    \cup
    { [shape |-> sh, data |-> <<3>>, next |-> nx] :
        sh \in {"object", "nodata"}, nx \in BOOLEAN }
    \cup
    { [shape |-> "array", data |-> d, next |-> FALSE] : d \in {<<>>, <<4>>} }

\* what the endpoint answers when asked for a page past its last one
PastTheEnd == [shape |-> "list", data |-> <<>>, next |-> FALSE]
ServerPage(k) == IF k <= Len(server) THEN server[k] ELSE PastTheEnd

\* lines 171-175: the items of one response body
Items(body) == body.data

\* data.get exists: the body is a dict (a list has no attribute `get`)
HasGet(body) == body.shape # "array"

\* `if not paging.get("next"): break` is not taken
HasNext(body) == body.next

\* min(per_page, 200)
PerPageUncapped(pp) == pp
PerPageCap(pp) == IF pp < MaxPerPage THEN pp ELSE MaxPerPage

\* the values callers pass for `params` and `per_page`
ParamArgs ==
    { [given |-> FALSE, map |-> EmptyDict],
      [given |-> TRUE, map |-> EmptyDict],
      [given |-> TRUE, map |-> [fields |-> "id,name"]],
      [given |-> TRUE, map |-> [page |-> 7, per_page |-> 10]] }
PerPageArgs == {DefaultPerPage, MaxPerPage, MaxPerPage + 1, 500}

\* `if params is None: params = {}`: a mapping that was passed (an empty one
\* too) is the object `params` names, so the caller sees what is stored into
\* it; only when none was passed does `params` name a dict of its own
AliasOf(a, p) == IF a.given THEN p ELSE a.map

\* paginated_request(endpoint, params, per_page) is called and iterated
\* (get_all does both): lines 158-162
PaginatedRequest(a, pp) ==
    /\ pg_pc = "idle"
    /\ params_arg' = a
    /\ per_page' = pp
    /\ params' = Put(IF a.given THEN a.map ELSE EmptyDict,
                     "per_page", PerPageCap(pp))
    /\ caller_params' = AliasOf(a, params')
    /\ page' = 1
    /\ pg_pc' = "fetch"
    /\ UNCHANGED <<server, items_out, sent>>
    /\ UNCHANGED <<clientVars, nlpVars, limVars, cliVars>>

\* one iteration of `while True` in which self.request returns a response:
\* lines 165-190
FetchPage ==
    /\ pg_pc = "fetch"
    /\ params' = Put(params, "page", page)
    /\ caller_params' = AliasOf(params_arg, params')
    /\ sent' = Append(sent, params')
    /\ LET body == ServerPage(page)
           items == Items(body)
       IN  IF items = <<>>
           THEN /\ pg_pc' = "done"
                /\ UNCHANGED <<items_out, page>>
           ELSE /\ items_out' = items_out \o items
                /\ IF ~HasGet(body)
                   THEN \* AttributeError at data.get("meta", {})
                        /\ pg_pc' = "crashed"
                        /\ UNCHANGED page
                   ELSE IF HasNext(body)
                   THEN /\ page' = page + 1
                        /\ UNCHANGED pg_pc
                   ELSE /\ pg_pc' = "done"
                        /\ UNCHANGED page
    /\ UNCHANGED <<server, params_arg, per_page>>
    /\ UNCHANGED <<clientVars, nlpVars, limVars, cliVars>>

\* one iteration in which self.request raises: the error leaves the generator
FetchFails ==
    /\ pg_pc = "fetch"
    /\ params' = Put(params, "page", page)
    /\ caller_params' = AliasOf(params_arg, params')
    /\ sent' = Append(sent, params')
    /\ pg_pc' = "raised"
    /\ UNCHANGED <<server, params_arg, per_page, page, items_out>>
    /\ UNCHANGED <<clientVars, nlpVars, limVars, cliVars>>

\* ------------------------------------------------- NLPProcessor: strings
\* A Python str is a TLA+ string; s[i-1] is CharAt(s, i).
CharAt(s, i) == SubSeq(s, i, i)
From(s, i) == SubSeq(s, i, Len(s))
Min(S) == CHOOSE x \in S : \A y \in S : x <= y

UpperCase == "ABCDEFGHIJKLMNOPQRSTUVWXYZ"
LowerCase == "abcdefghijklmnopqrstuvwxyz"
Digits == "0123456789"
CharsOf(s) == {CharAt(s, i) : i \in 1..Len(s)}
IndexIn(s, c) == Min({i \in 1..Len(s) : CharAt(s, i) = c})

UpperChars == CharsOf(UpperCase)

\* str.lower() on the letters A-Z
LowerChar(c) ==
    IF c \in UpperChars
    THEN CharAt(LowerCase, IndexIn(UpperCase, c)) ELSE c
RECURSIVE LowerFrom(_, _)
LowerFrom(s, i) ==
    IF i > Len(s) THEN "" ELSE LowerChar(CharAt(s, i)) \o LowerFrom(s, i + 1)
Lower(s) == LowerFrom(s, 1)

\* str.strip(), the whitespace being blanks
RECURSIVE FirstNonBlank(_, _)
\* the index of the first character from i on that is no blank
FirstNonBlank(s, i) ==
    IF i <= Len(s) /\ CharAt(s, i) = " " THEN FirstNonBlank(s, i + 1) ELSE i
RECURSIVE LastNonBlank(_, _)
\* the index of the last character up to i that is no blank
LastNonBlank(s, i) ==
    IF i >= 1 /\ CharAt(s, i) = " " THEN LastNonBlank(s, i - 1) ELSE i
Strip(s) == SubSeq(s, FirstNonBlank(s, 1), LastNonBlank(s, Len(s)))

\* query.lower().strip()
Normalize(q) == Strip(Lower(q))

\* int() of a string of decimal digits
RECURSIVE IntOfPrefix(_, _)
\* the number written by the first n digits of s
IntOfPrefix(s, n) ==
    IF n = 0 THEN 0
    ELSE IntOfPrefix(s, n - 1) * Len(Digits)
         + (IndexIn(Digits, CharAt(s, n)) - 1)
IntOfDigits(s) == IntOfPrefix(s, Len(s))

\* "; ".join(strs)
RECURSIVE JoinWith(_, _)
JoinWith(sep, strs) ==
    IF strs = <<>> THEN ""
    ELSE IF Len(strs) = 1 THEN strs[1]
    ELSE strs[1] \o sep \o JoinWith(sep, Tail(strs))

\* ------------------------------------------- NLPProcessor: regular expressions
\* the character classes [a-zA-Z0-9_-], \d and \w (on ASCII)
NameChars == CharsOf(LowerCase) \cup CharsOf(UpperCase) \cup CharsOf(Digits)
             \cup {"_", "-"}
DigitChars == CharsOf(Digits)
WordChars == CharsOf(LowerCase) \cup CharsOf(UpperCase) \cup CharsOf(Digits)
             \cup {"_"}

\* p occurs in s at position i
Occurs(s, p, i) == i + Len(p) - 1 <= Len(s) /\ SubSeq(s, i, i + Len(p) - 1) = p
\* `p in s`, and re.search of a pattern without metacharacters
Contains(s, p) ==
    \E i \in 1..(Len(s) - Len(p) + 1) : SubSeq(s, i, i + Len(p) - 1) = p

RECURSIVE RunEnd(_, _, _)
\* the index after the longest run of characters of cls that starts at i
RunEnd(s, i, cls) ==
    IF i <= Len(s) /\ CharAt(s, i) \in cls THEN RunEnd(s, i + 1, cls) ELSE i

NoMatch == [ok |-> FALSE, groups |-> <<>>]
Matched(gs) == [ok |-> TRUE, groups |-> gs]

\* The regular expressions of the tables, by form:
\*   "lit"   text                     (no group)
\*   "rest"  text(.+)
\*   "name"  text(?:named |called )?([a-zA-Z0-9_-]+)
\*   "digits" (?:show|limit|top) (\d+)
\*   "word"  text(\w+)
\*   "named" (?:named |called )([a-zA-Z0-9_-]+)
Lit(t) == [form |-> "lit", text |-> t]
Rest(t) == [form |-> "rest", text |-> t]
Name(t) == [form |-> "name", text |-> t]

\* ([class]+) tried at position i
ClassGroupAt(s, i, cls) ==
    IF RunEnd(s, i, cls) > i
    THEN Matched(<<SubSeq(s, i, RunEnd(s, i, cls) - 1)>>) ELSE NoMatch

\* (?:named |called )([a-zA-Z0-9_-]+) tried at position i
NamedGroupAt(s, i) ==
    IF Occurs(s, "named ", i) THEN ClassGroupAt(s, i + Len("named "), NameChars)
    ELSE IF Occurs(s, "called ", i)
    THEN ClassGroupAt(s, i + Len("called "), NameChars)
    ELSE NoMatch

\* the pattern tried at position i: the greedy choices the regex engine
\* makes first, then the ones it backtracks to
MatchAt(pat, s, i) ==
    IF pat.form = "named" THEN NamedGroupAt(s, i)
    ELSE IF pat.form = "digits"
    THEN LET alts == {w \in {"show ", "limit ", "top "} : Occurs(s, w, i)} IN
         IF alts = {} THEN NoMatch
         ELSE ClassGroupAt(s, i + Len(CHOOSE w \in alts : TRUE), DigitChars)
    ELSE IF ~Occurs(s, pat.text, i) THEN NoMatch
    ELSE LET j == i + Len(pat.text) IN
         CASE pat.form = "lit" -> Matched(<<>>)
           [] pat.form = "rest" ->
                IF j <= Len(s) THEN Matched(<<From(s, j)>>) ELSE NoMatch
           [] pat.form = "word" -> ClassGroupAt(s, j, WordChars)
           [] pat.form = "name" ->
                IF NamedGroupAt(s, j).ok THEN NamedGroupAt(s, j)
                ELSE ClassGroupAt(s, j, NameChars)

\* re.search(pattern, s): the match at the leftmost position that has one
Search(pat, s) ==
    IF pat.form = "lit"
    THEN IF Contains(s, pat.text) THEN Matched(<<>>) ELSE NoMatch
    ELSE LET at == {i \in 1..Len(s) : MatchAt(pat, s, i).ok} IN
         IF at = {} THEN NoMatch ELSE MatchAt(pat, s, Min(at))

\* ------------------------------------------------ NLPProcessor: the tables
\* HTTPMethod.GET, CLIService.CLIO_SERVICE, CLIService.CUSTOM_FIELDS_MANAGER
GET == "GET"
CLIO_SERVICE == "clio_service"
CUSTOM_FIELDS_MANAGER == "custom-fields-manager"

\* the API rules in the opposite order
api_patterns_reversed ==
    << [name |-> "list_queries",
        patterns |-> <<Lit("list queries"), Lit("show queries"),
                       Lit("get queries"), Lit("query history")>>,
        endpoint |-> "/queries", method |-> GET],
       [name |-> "health",
        patterns |-> <<Lit("health"), Lit("status"), Lit("alive"),
                       Lit("running")>>,
        endpoint |-> "/health", method |-> GET] >>

\* _load_api_patterns(): the rules in the dict's insertion order
api_patterns ==
    << [name |-> "health",
        patterns |-> <<Lit("health"), Lit("status"), Lit("alive"),
                       Lit("running")>>,
        endpoint |-> "/health", method |-> GET],
       [name |-> "list_queries",
        patterns |-> <<Lit("list queries"), Lit("show queries"),
                       Lit("get queries"), Lit("query history")>>,
        endpoint |-> "/queries", method |-> GET] >>

\* _load_cli_patterns(): the rules in the dict's insertion order
cli_patterns ==
    << [name |-> "clio_list",
        patterns |-> <<Lit("clio list"), Lit("list clio"),
                       Lit("show clio items")>>,
        service |-> CLIO_SERVICE, command |-> "list"],
       [name |-> "clio_search",
        patterns |-> <<Rest("clio search "), Rest("search clio for ")>>,
        service |-> CLIO_SERVICE, command |-> "search"],
       [name |-> "custom_fields_list",
        patterns |-> <<Lit("list custom fields"), Lit("show custom fields"),
                       Lit("custom fields list")>>,
        service |-> CUSTOM_FIELDS_MANAGER, command |-> "list"],
       [name |-> "custom_fields_create",
        patterns |-> <<Name("create custom field "),
                       Name("add custom field ")>>,
        service |-> CUSTOM_FIELDS_MANAGER, command |-> "create"] >>

\* ---------------------------------------------- NLPProcessor: process_query
\* APICall(endpoint, method, payload); the payload None is the empty dict
\* (_extract_api_payload never returns an empty dict)
APICall(e, m, pl) == [endpoint |-> e, method |-> m, payload |-> pl]
\* CLICall(command, args, exit_code = 0)
CLICall(c, as) == [command |-> c, args |-> as]

\* <<rule, pattern>> for every regular expression of a table
PatternIndex(table) ==
    UNION { {<<r, k>> : k \in DOMAIN table[r].patterns} : r \in DOMAIN table }

\* the last rule wins
LastMatch(table, q) ==
    LET hits == {rp \in PatternIndex(table) :
                    Search(table[rp[1]].patterns[rp[2]], q).ok}
    IN  IF hits = {} THEN <<0, 0>>
        ELSE CHOOSE rp \in hits :
                \A o \in hits : \/ rp[1] > o[1]
                                \/ rp[1] = o[1] /\ rp[2] <= o[2]

\* the first (rule, pattern), in table order, whose pattern is found in q;
\* <<0, 0>> if there is none
FirstMatch(table, q) ==
    LET hits == {rp \in PatternIndex(table) :
                    Search(table[rp[1]].patterns[rp[2]], q).ok}
    IN  IF hits = {} THEN <<0, 0>>
        ELSE CHOOSE rp \in hits :
                \A o \in hits : \/ rp[1] < o[1]
                                \/ rp[1] = o[1] /\ rp[2] <= o[2]

\* _extract_api_payload(query, pattern_name)
ExtractApiPayload(q, pattern_name) ==
    IF pattern_name # "list_queries" THEN EmptyDict
    ELSE LET limit_match == Search([form |-> "digits", text |-> ""], q)
             status_match == Search([form |-> "word", text |-> "status "], q)
             p1 == IF limit_match.ok
                   THEN Put(EmptyDict, "limit",
                            IntOfDigits(limit_match.groups[1]))
                   ELSE EmptyDict
         IN  IF status_match.ok
             THEN Put(p1, "status", status_match.groups[1]) ELSE p1

\* _match_api_patterns(query): a sequence of zero or one APICall
MatchApiPatterns(q) ==
    LET rp == FirstMatch(self_api_patterns, q) IN
    IF rp[1] = 0 THEN <<>>
    ELSE LET config == self_api_patterns[rp[1]] IN
         <<APICall(config.endpoint, config.method,
                   ExtractApiPayload(q, config.name))>>

\* the groups as captured
StripNone(gs) == gs
\* [group.strip() for group in match.groups()]
StripAll(gs) == [i \in DOMAIN gs |-> Strip(gs[i])]

\* _match_cli_patterns(query): a sequence of zero or one CLICall
MatchCliPatterns(q) ==
    LET rp == FirstMatch(self_cli_patterns, q) IN
    IF rp[1] = 0 THEN <<>>
    ELSE LET config == self_cli_patterns[rp[1]]
             match == Search(config.patterns[rp[2]], q)
         IN  <<CLICall(config.service,
                       <<config.command>> \o StripAll(match.groups))>>

\* any(word in query for word in words)
AnyIn(words, q) == \E w \in words : Contains(q, w)

\* _extract_intent(query, context)
ExtractIntent(q) ==
    IF AnyIn({"show", "list", "display", "get"}, q)
    THEN IF Contains(q, "query") \/ Contains(q, "queries")
         THEN [api_calls |-> <<APICall("/queries", GET, EmptyDict)>>,
               cli_calls |-> <<>>]
         ELSE IF Contains(q, "clio")
         THEN [api_calls |-> <<>>,
               cli_calls |-> <<CLICall(CLIO_SERVICE, <<"list">>)>>]
         ELSE IF Contains(q, "custom field")
         THEN [api_calls |-> <<>>,
               cli_calls |-> <<CLICall(CUSTOM_FIELDS_MANAGER, <<"list">>)>>]
         ELSE [api_calls |-> <<>>, cli_calls |-> <<>>]
    ELSE IF AnyIn({"create", "add", "new"}, q) /\ Contains(q, "custom field")
    THEN LET field_match == Search([form |-> "named", text |-> ""], q) IN
         [api_calls |-> <<>>,
          cli_calls |-> <<CLICall(CUSTOM_FIELDS_MANAGER,
                           IF field_match.ok
                           THEN <<"create", Strip(field_match.groups[1])>>
                           ELSE <<"create">>)>>]
    ELSE [api_calls |-> <<>>, cli_calls |-> <<>>]

\* `for pattern_name, config in {**api_patterns, **cli_patterns}.items():
\*  for pattern in config["patterns"]: if re.search(pattern, query)`
MatchingPatterns(q) ==
    Cardinality({rp \in PatternIndex(self_api_patterns) :
                    Search(self_api_patterns[rp[1]].patterns[rp[2]], q).ok})
    + Cardinality({rp \in PatternIndex(self_cli_patterns) :
                    Search(self_cli_patterns[rp[1]].patterns[rp[2]], q).ok})

\* the number of regular expressions of both tables
RegexCount ==
    Cardinality(PatternIndex(api_patterns))
    + Cardinality(PatternIndex(cli_patterns))
\* total_patterns = len(self.api_patterns) + len(self.cli_patterns): the
\* number of rules of both tables
TotalPatterns == Len(self_api_patterns) + Len(self_cli_patterns)

\* _calculate_confidence(query, api_calls, cli_calls), in thousandths
Clamp(c) == IF c < ConfidenceCap THEN c ELSE ConfidenceCap
CalculateConfidence(q, api_calls, cli_calls) ==
    IF api_calls = <<>> /\ cli_calls = <<>> THEN NoMatchConfidence
    ELSE Clamp(BaseConfidence
               + MatchingPatterns(q) * (PatternBonus \div TotalPatterns)
               + (IF Len(api_calls) + Len(cli_calls) > 1
                  THEN MultiCallBonus ELSE 0))

\* `x in call.args`
InArgs(x, args) == \E i \in DOMAIN args : args[i] = x

\* the phrase _generate_interpretation appends for one CLI call (<<>> if none)
CliPhrase(call) ==
    IF call.command = CLIO_SERVICE
    THEN IF InArgs("list", call.args) THEN <<"List items from Clio service">>
         ELSE IF InArgs("search", call.args) THEN <<"Search Clio service">>
         ELSE <<>>
    ELSE IF call.command = CUSTOM_FIELDS_MANAGER
    THEN IF InArgs("list", call.args) THEN <<"List custom fields">>
         ELSE IF InArgs("create", call.args)
         THEN <<"Create a new custom field">>
         ELSE <<>>
    ELSE <<>>

\* the phrase _generate_interpretation appends for one API call
ApiPhrase(call) ==
    IF call.endpoint = "/health" THEN <<"Check system health status">>
    ELSE IF call.endpoint = "/queries" THEN <<"List processed queries">>
    ELSE <<>>

RECURSIVE Phrases(_, _)
\* `for call in api_calls: ...` (isApi) and `for call in cli_calls: ...`
Phrases(cs, isApi) ==
    IF cs = <<>> THEN <<>>
    ELSE (IF isApi THEN ApiPhrase(Head(cs)) ELSE CliPhrase(Head(cs)))
         \o Phrases(Tail(cs), isApi)

NoActionIdentified == "No specific action identified"

\* _generate_interpretation(api_calls, cli_calls)
GenerateInterpretation(api_calls, cli_calls) ==
    LET interpretations == Phrases(api_calls, TRUE) \o Phrases(cli_calls, FALSE)
    IN  IF interpretations = <<>> THEN NoActionIdentified
        ELSE JoinWith("; ", interpretations)

ExampleSuggestions ==
    << "Try asking to 'list queries' or 'show health status'",
       "Use 'clio list' to see Clio items",
       "Ask to 'list custom fields' to see available fields" >>
RefineSuggestions ==
    << "You can add filters like 'status completed' for query lists",
       "Use specific field names when creating custom fields",
       "Check the health endpoint to verify system status" >>

\* the same suggestions for every result
GenerateSuggestionsFixed(api_calls, cli_calls) == RefineSuggestions
\* _generate_suggestions(api_calls, cli_calls)
GenerateSuggestions(api_calls, cli_calls) ==
    IF api_calls = <<>> /\ cli_calls = <<>>
    THEN ExampleSuggestions ELSE RefineSuggestions

\* the keyword fallback consulted on every query, its descriptors added to
\* those of the tables
ProcessQueryResultMerged(q, ql, am, cm) ==
    LET intent_result == ExtractIntent(ql)
        api_calls == am \o intent_result.api_calls
        cli_calls == cm \o intent_result.cli_calls
    IN  [query |-> q,
         interpretation |-> GenerateInterpretation(api_calls, cli_calls),
         suggested_actions |-> GenerateSuggestions(api_calls, cli_calls),
         api_calls |-> api_calls,
         cli_calls |-> cli_calls,
         confidence_score |->
             CalculateConfidence(ql, api_calls, cli_calls)]
\* the dict process_query(query, context, options) returns, given its locals
\* query_lower (ql), api_match (am) and cli_match (cm)
ProcessQueryResult(q, ql, am, cm) ==
    LET fallback == am = <<>> /\ cm = <<>>
        intent_result == ExtractIntent(ql)
        api_calls == IF fallback THEN intent_result.api_calls ELSE am
        cli_calls == IF fallback THEN intent_result.cli_calls ELSE cm
    IN  [query |-> q,
         interpretation |-> GenerateInterpretation(api_calls, cli_calls),
         suggested_actions |-> GenerateSuggestions(api_calls, cli_calls),
         api_calls |-> api_calls,
         cli_calls |-> cli_calls,
         confidence_score |->
             CalculateConfidence(ql, api_calls, cli_calls)]

\* the value of `result` before process_query has returned
NoResult ==
    [query |-> "", interpretation |-> "", suggested_actions |-> <<>>,
     api_calls |-> <<>>, cli_calls |-> <<>>, confidence_score |-> 0]

\* fault variant: a rule that matched is moved to the end of its table
TablesAfterMut(table, q) ==
    IF FirstMatch(table, q)[1] = 0 THEN table
    ELSE LET r == FirstMatch(table, q)[1] IN
         SubSeq(table, 1, r - 1) \o SubSeq(table, r + 1, Len(table))
         \o <<table[r]>>
\* the table after process_query has interpreted q: no statement of
\* process_query or of the methods it calls assigns to self.api_patterns or
\* self.cli_patterns or changes a rule (lines 61-282 only read them)
TablesAfter(table, q) == table

\* await process_query(query, {}, {})
ProcessQuery ==
    /\ nlp_pc = "idle"
    /\ query_lower' = Normalize(query)
    /\ api_match' = MatchApiPatterns(query_lower')
    /\ cli_match' = MatchCliPatterns(query_lower')
    /\ result' = ProcessQueryResult(query, query_lower', api_match', cli_match')
    /\ self_api_patterns' = TablesAfter(self_api_patterns, query_lower')
    /\ self_cli_patterns' = TablesAfter(self_cli_patterns, query_lower')
    /\ outputs' = Append(outputs, [query |-> query, result |-> result'])
    /\ nlp_pc' = "done"
    /\ UNCHANGED query
    /\ UNCHANGED <<clientVars, pageVars, limVars, cliVars>>

\* the phrases queries are put together from, joined by single blanks (the
\* empty phrase and the phrase that ends in a blank give leading, trailing
\* and doubled blanks)
Words ==
    << "Health", "status completed", "list queries", "top 10", "queries",
       "show", "list", "clio", "clio list", "clio search ", "custom fields",
       "create custom field", "named test_field", "test_field", "" >>
RECURSIVE Join(_)
Join(ws) ==
    IF Len(ws) = 1 THEN Words[ws[1]]
    ELSE Words[ws[1]] \o " " \o Join(Tail(ws))
Queries ==
    { Join(ws) : ws \in UNION { [1..n -> DOMAIN Words] : n \in 1..MaxWords } }

\* process_query has not been called
\* the caller calls process_query again on the same processor, with query q
NextQuery(q) ==
    /\ nlp_pc = "done"
    /\ Len(outputs) < MaxQueries
    /\ query' = q
    /\ nlp_pc' = "idle"
    /\ query_lower' = ""
    /\ api_match' = <<>>
    /\ cli_match' = <<>>
    /\ result' = NoResult
    /\ UNCHANGED <<self_api_patterns, self_cli_patterns, outputs>>
    /\ UNCHANGED <<clientVars, pageVars, limVars, cliVars>>

\* NLPProcessor(): __init__ loads the two tables; no call yet
NlpIdle ==
    /\ nlp_pc = "idle"
    /\ query = ""
    /\ query_lower = ""
    /\ api_match = <<>>
    /\ cli_match = <<>>
    /\ result = NoResult
    /\ self_api_patterns = api_patterns
    /\ self_cli_patterns = cli_patterns
    /\ outputs = <<>>

\* ----------------------------------------------- CLI command execution
\* json.loads on the JSON texts the services print: numbers, arrays and
\* objects with string keys, without blanks inside.  A number is parsed to
\* itself, an array to a sequence, an object to a function on its keys.
Ch(t, i) == IF i >= 1 /\ i <= Len(t) THEN CharAt(t, i) ELSE ""
RECURSIVE DigitsEnd(_, _)
\* the index after the digits that start at i
DigitsEnd(t, i) == IF Ch(t, i) \in DigitChars THEN DigitsEnd(t, i + 1) ELSE i
RECURSIVE KeyEnd(_, _)
\* the index of the quote that ends the key starting at i, 0 if there is none
KeyEnd(t, i) ==
    IF i > Len(t) THEN 0
    ELSE IF CharAt(t, i) = "\"" THEN i ELSE KeyEnd(t, i + 1)

NoParse == [ok |-> FALSE, next |-> 0, kind |-> "", val |-> 0]
Parsed(n, k, v) == [ok |-> TRUE, next |-> n, kind |-> k, val |-> v]

RECURSIVE ParseValue(_, _)
RECURSIVE ParseItems(_, _, _)
RECURSIVE ParseMembers(_, _, _)
\* the value that starts at index i of t
ParseValue(t, i) ==
    IF Ch(t, i) \in DigitChars
    THEN Parsed(DigitsEnd(t, i), "number",
                IntOfDigits(SubSeq(t, i, DigitsEnd(t, i) - 1)))
    ELSE IF Ch(t, i) = "["
    THEN IF Ch(t, i + 1) = "]" THEN Parsed(i + 2, "array", <<>>)
         ELSE ParseItems(t, i + 1, <<>>)
    ELSE IF Ch(t, i) = "{"
    THEN IF Ch(t, i + 1) = "}" THEN Parsed(i + 2, "object", EmptyDict)
         ELSE ParseMembers(t, i + 1, EmptyDict)
    ELSE NoParse
\* the items of an array from index i on, after the items `sofar`
ParseItems(t, i, sofar) ==
    LET v == ParseValue(t, i) IN
    IF ~v.ok THEN NoParse
    ELSE IF Ch(t, v.next) = ","
    THEN ParseItems(t, v.next + 1, Append(sofar, v.val))
    ELSE IF Ch(t, v.next) = "]"
    THEN Parsed(v.next + 1, "array", Append(sofar, v.val))
    ELSE NoParse
\* the members of an object from index i on, after the members `sofar`
ParseMembers(t, i, sofar) ==
    LET q == KeyEnd(t, i + 1) IN
    IF Ch(t, i) # "\"" \/ q = 0 \/ Ch(t, q + 1) # ":" THEN NoParse
    ELSE LET v == ParseValue(t, q + 2)
             d == Put(sofar, SubSeq(t, i + 1, q - 1), v.val)
         IN  IF ~v.ok THEN NoParse
             ELSE IF Ch(t, v.next) = ","
             THEN ParseMembers(t, v.next + 1, d)
             ELSE IF Ch(t, v.next) = "}"
             THEN Parsed(v.next + 1, "object", d)
             ELSE NoParse
\* json.loads(text): <<>> for json.JSONDecodeError, else <<[kind, val]>>
JsonLoads(text) ==
    LET t == Strip(text)
        v == ParseValue(t, 1)
    IN  IF v.ok /\ v.next = Len(t) + 1
        THEN <<[kind |-> v.kind, val |-> v.val]>> ELSE <<>>

\* result["stdout"].strip().startswith(("{", "["))
LooksLikeJson(text) == Ch(Strip(text), 1) \in {"{", "["}

\* what one run of a service gives: whether the executable exists, the bytes
\* captured on stdout (as text when they are UTF-8, `utf8` FALSE when not),
\* the text on stderr and the exit code
Stdouts ==
    { "", "done", "{}", "[]", "[1,2]", "{\"id\":7}", " {\"id\":7} ",
      "{\"contacts\":[{\"id\":1}]}", "[{\"id\":1},{\"id\":2}]",
      "{\"id\":7", "[1,]", "{id:7}", "[1] items" }
Procs ==
    [exists : BOOLEAN, utf8 : BOOLEAN, stdout : Stdouts,
     stderr : {"", "warning"}, returncode : {0, 1, 2}]

\* an exception leaves execute_command
Raised(e) == [raised |-> e]
IsRaised(r) == "raised" \in DOMAIN r

\* lines 76-81 of CLIManager.execute_command on the dict `result` (parsed_output <<>> stands for
\* the key being absent)
AttachParsed(res) ==
    IF LooksLikeJson(res.stdout)
    THEN [res EXCEPT !.parsed_output = JsonLoads(res.stdout)]
    ELSE res

\* CLIManager.execute_command(service, command, args, input_data) when the
\* process is p
ManagerExecute(p) ==
    IF ~p.exists THEN Raised("FileNotFoundError")
    ELSE IF ~p.utf8 THEN Raised("UnicodeDecodeError")
    ELSE AttachParsed([stdout |-> p.stdout, stderr |-> p.stderr,
                       exit_code |-> p.returncode, parsed_output |-> <<>>])

\* CLIResponse(...): parsed_output is declared Optional[Dict[str, Any]], so
\* validation accepts None and a dict and raises ValidationError for a list
ValidResponse(parsed) == parsed = <<>> \/ parsed[1].kind = "object"

\* CLIService.execute_command(request) when the process is p
ServiceExecute(p) ==
    LET res == ManagerExecute(p)
        failed(e) == [stdout |-> "", stderr |-> e, exit_code |-> 1,
                      parsed_output |-> <<>>]
    IN  IF IsRaised(res) THEN failed(res.raised)
        ELSE IF ~ValidResponse(res.parsed_output)
        THEN failed("ValidationError")
        ELSE res

\* await cli_manager.execute_command(...)
CallManager ==
    /\ cli_pc = "idle"
    /\ cli_result' = ManagerExecute(proc)
    /\ cli_pc' = "manager"
    /\ UNCHANGED proc
    /\ UNCHANGED <<clientVars, pageVars, nlpVars, limVars>>

\* await cli_service.execute_command(request)
CallService ==
    /\ cli_pc = "idle"
    /\ cli_result' = ServiceExecute(proc)
    /\ cli_pc' = "service"
    /\ UNCHANGED proc
    /\ UNCHANGED <<clientVars, pageVars, nlpVars, limVars>>

\* no CLI command is being executed
CliIdle ==
    /\ cli_pc = "idle"
    /\ proc = [exists |-> FALSE, utf8 |-> TRUE, stdout |-> "", stderr |-> "",
               returncode |-> 0]
    /\ cli_result = Raised("")

\* ------------------------------------------------------- specifications
InitCommon ==
    /\ ticks = 0
    /\ lock = 0
    /\ pc = [c \in Callers |-> "idle"]
    /\ now = [c \in Callers |-> 0]
    /\ wake = [c \in Callers |-> 0]
    /\ ret = [c \in Callers |-> "direct"]
    /\ calls = 0
    /\ completions = <<>>
    /\ max_retries = [c \in Callers |-> 0]
    /\ attempt = [c \in Callers |-> 0]
    /\ outcome = [c \in Callers |-> "none"]
    /\ carried = [c \in Callers |-> <<>>]
    /\ log = [c \in Callers |-> <<>>]
    /\ cancelled_at = [c \in Callers |-> "none"]
    /\ times_of = [l \in Clients |-> <<>>]
    /\ lock_of = [l \in Clients |-> 0]

\* no pagination is running
PageIdle ==
    /\ pg_pc = "idle"
    /\ server = <<>>
    /\ params_arg = [given |-> FALSE, map |-> EmptyDict]
    /\ params = EmptyDict
    /\ caller_params = EmptyDict
    /\ per_page = DefaultPerPage
    /\ page = 1
    /\ items_out = <<>>
    /\ sent = <<>>

\* Concurrent tasks calling wait_if_needed on one fresh RateLimiter.
InitGate ==
    /\ InitCommon
    /\ PageIdle
    /\ NlpIdle
    /\ CliIdle
    /\ clock = 0
    /\ request_times = <<>>
    /\ times0 = <<>>
    /\ auth_token = "token"

NextGate ==
    \/ \E d \in TickSteps : Tick(d)
    \/ TickToWake
    \/ \E c \in Callers : WaitIfNeeded(c)
    \/ \E c \in Callers : Enter(c)
    \/ \E c \in Callers : HourWake(c)
    \/ \E c \in Callers : MinuteWake(c)

SpecGate == InitGate /\ [][NextGate]_vars

\* Callers of one limiter with progress: time passes up to the next deadline
\* of a sleeping coroutine (a minute may pass between calls), the event loop
\* resumes a coroutine whose sleep is over, and asyncio.Lock wakes its
\* waiters in the order they arrived, so a waiter is not passed over for
\* ever.  Nothing obliges a task to call wait_if_needed.
NextWait ==
    \/ Tick(MinuteWindow)
    \/ TickToWake
    \/ \E c \in Callers : WaitIfNeeded(c)
    \/ \E c \in Callers : Enter(c)
    \/ \E c \in Callers : HourWake(c)
    \/ \E c \in Callers : MinuteWake(c)

FairGate ==
    /\ WF_vars(TickToWake)
    /\ \A c \in Callers :
          /\ SF_vars(Enter(c))
          /\ WF_vars(HourWake(c))
          /\ WF_vars(MinuteWake(c))
SpecGateLive == InitGate /\ [][NextWait]_vars /\ FairGate

\* One task calling request once, at time 60, on a client whose Rate Window
\* holds the timestamps of earlier requests (none; one made just now; the
\* three of two calls at time 0 and one at time 60).
InitWindows == {<<>>, <<60>>, <<0, 0, 60>>}
InitRequest ==
    /\ InitCommon
    /\ PageIdle
    /\ NlpIdle
    /\ CliIdle
    /\ clock = 60
    /\ request_times \in InitWindows
    /\ times0 = request_times
    /\ auth_token \in {"", "token"}

NextRequest ==
    \/ TickToWake
    \/ \E R \in 0..MaxR : Request(Requester, R)
    \/ Enter(Requester)
    \/ HourWake(Requester)
    \/ MinuteWake(Requester)
    \/ \E r \in Responses : Http(Requester, r)
    \/ SleepDone(Requester)

SpecRequest == InitRequest /\ [][NextRequest]_vars

\* The same with progress: the event loop resumes a coroutine that can run,
\* time passes for a sleeping one, and the transport ends every attempt (with
\* a response, or with a RequestError at the latest when the client's
\* 30-second timeout expires).
SpecRequestLive == SpecRequest /\ WF_vars(NextRequest)

\* One pagination over an endpoint that serves up to MaxPages pages, on a
\* client that is otherwise idle.
Servers == UNION { [1..n -> PageBodies] : n \in 0..MaxPages }
InitPaginate ==
    /\ InitCommon
    /\ clock = 0
    /\ request_times = <<>>
    /\ times0 = <<>>
    /\ auth_token = "token"
    /\ pg_pc = "idle"
    /\ server \in Servers
    /\ params_arg = [given |-> FALSE, map |-> EmptyDict]
    /\ params = EmptyDict
    /\ caller_params = EmptyDict
    /\ per_page = DefaultPerPage
    /\ page = 1
    /\ items_out = <<>>
    /\ sent = <<>>
    /\ NlpIdle
    /\ CliIdle

NextPaginate ==
    \/ \E a \in ParamArgs, pp \in PerPageArgs : PaginatedRequest(a, pp)
    \/ FetchPage
    \/ FetchFails

SpecPaginate == InitPaginate /\ [][NextPaginate]_vars

\* Two tasks calling request on one client with one retry, either of which
\* may be cancelled at any await; the server answers 200 or 503.  The Rate Window holds
\* earlier requests as in InitRequest.
CancelCallers == {Requester, Requester + 1}
\* the argument max_retries both pass: one retry
CancelRetries == 1
CancelResponses == {r \in Responses : r.status \in {200, 503}}
InitCancel ==
    /\ InitCommon
    /\ PageIdle
    /\ NlpIdle
    /\ CliIdle
    /\ clock = 60
    /\ request_times \in InitWindows
    /\ times0 = request_times
    /\ auth_token = "token"

NextCancel ==
    \/ TickToWake
    \/ \E c \in CancelCallers : Request(c, CancelRetries)
    \/ \E c \in CancelCallers : Enter(c)
    \/ \E c \in CancelCallers : HourWake(c)
    \/ \E c \in CancelCallers : MinuteWake(c)
    \/ \E c \in CancelCallers, r \in CancelResponses : Http(c, r)
    \/ \E c \in CancelCallers : SleepDone(c)
    \/ \E c \in CancelCallers : Cancel(c)

\* progress as in SpecGateLive and SpecRequestLive; nothing obliges anyone to
\* call request or to cancel a task
FairCancel ==
    /\ WF_vars(TickToWake)
    /\ \A c \in CancelCallers :
          /\ SF_vars(Enter(c))
          /\ WF_vars(HourWake(c))
          /\ WF_vars(MinuteWake(c))
          /\ WF_vars(\E r \in CancelResponses : Http(c, r))
          /\ WF_vars(SleepDone(c))
SpecCancel == InitCancel /\ [][NextCancel]_vars /\ FairCancel

\* Callers passing the rate gates of two clients created in one process;
\* time passes up to a sleeper's deadline or by a minute.
InitClients == InitGate

NextClients ==
    \/ Tick(MinuteWindow)
    \/ TickToWake
    \/ \E c \in Callers : WaitIfNeeded(c)
    \/ \E c \in Callers : ClientEnter(c)
    \/ \E c \in Callers : ClientHourWake(c)
    \/ \E c \in Callers : ClientMinuteWake(c)

SpecClients == InitClients /\ [][NextClients]_vars

\* One CLI command executed through CLIManager or through CLIService, for
\* every process of Procs.
InitCLI ==
    /\ InitCommon
    /\ clock = 0
    /\ request_times = <<>>
    /\ times0 = <<>>
    /\ auth_token = "token"
    /\ PageIdle
    /\ NlpIdle
    /\ cli_pc = "idle"
    /\ proc \in Procs
    /\ cli_result = Raised("")

NextCLI == CallManager \/ CallService

SpecCLI == InitCLI /\ [][NextCLI]_vars

\* One call of process_query on a fresh NLPProcessor, for every query of
\* Queries; the client is idle.
InitNLP ==
    /\ InitCommon
    /\ clock = 0
    /\ request_times = <<>>
    /\ times0 = <<>>
    /\ auth_token = "token"
    /\ PageIdle
    /\ CliIdle
    /\ nlp_pc = "idle"
    /\ query \in Queries
    /\ query_lower = ""
    /\ api_match = <<>>
    /\ cli_match = <<>>
    /\ result = NoResult
    /\ self_api_patterns = api_patterns
    /\ self_cli_patterns = cli_patterns
    /\ outputs = <<>>

NextNLP == ProcessQuery

SpecNLP == InitNLP /\ [][NextNLP]_vars

\* Several calls of process_query, one after the other, on one NLPProcessor;
\* the queries are taken from a few that no rule, one rule, two rules or only
\* the keyword fallback answer.
RepeatQueries ==
    { "Health", "list queries top 10", "clio search  clio list",
      "create custom field named test_field", "show clio", "what?" }
InitRepeat ==
    /\ InitCommon
    /\ clock = 0
    /\ request_times = <<>>
    /\ times0 = <<>>
    /\ auth_token = "token"
    /\ PageIdle
    /\ CliIdle
    /\ nlp_pc = "idle"
    /\ query \in RepeatQueries
    /\ query_lower = ""
    /\ api_match = <<>>
    /\ cli_match = <<>>
    /\ result = NoResult
    /\ self_api_patterns = api_patterns
    /\ self_cli_patterns = cli_patterns
    /\ outputs = <<>>

NextRepeat ==
    \/ ProcessQuery
    \/ \E q \in RepeatQueries : NextQuery(q)

SpecRepeat == InitRepeat /\ [][NextRepeat]_vars

\* ------------------------------------------------- claims about the gate
\* pc values of a caller suspended inside the `async with self._lock` block
InGate == {"hoursleep", "minutesleep"}

\* number of entries of seq in the half-open interval [lo, hi)
CountIn(seq, lo, hi) ==
    Cardinality({i \in DOMAIN seq : lo <= seq[i] /\ seq[i] < hi})

\* number of entries of seq newer than `since` (the code's own window test)
CountNewer(seq, since) == Cardinality({i \in DOMAIN seq : seq[i] > since})

\* C1: in every rolling 60-second window of real time at most
\* requests_per_minute calls return from wait_if_needed, and in every rolling
\* 3600-second window at most requests_per_hour.  (Every window that holds a
\* completion is covered by the window that starts at one.)
C1_RollingWindowCap ==
    \A i \in DOMAIN completions :
        /\ CountIn(completions, completions[i], completions[i] + MinuteWindow)
              <= requests_per_minute
        /\ CountIn(completions, completions[i], completions[i] + HourWindow)
              <= requests_per_hour

\* C4: while one caller is suspended inside the wait-and-append sequence it
\* holds the lock, and no step taken meanwhile lets another caller into the
\* sequence or changes request_times.
C4_Inv ==
    \A c \in Callers : pc[c] \in InGate => lock = c
C4_Step ==
    \A h \in Callers :
        (pc[h] \in InGate /\ pc'[h] \in InGate) =>
            /\ request_times' = request_times
            /\ \A c \in Callers \ {h} : pc[c] = "lock" => pc'[c] = "lock"
C4_MutualExclusion == []C4_Inv /\ [][C4_Step]_vars

\* a caller sleeps for capacity inside the gate while another waits at the lock
C4_Witness ==
    \E h, c \in Callers : h # c /\ pc[h] \in InGate /\ pc[c] = "lock"

\* C5: in every state the stored timestamps newer than clock - 60 number at
\* most requests_per_minute and those newer than clock - 3600 at most
\* requests_per_hour; and when a call has run its prune, no stored timestamp
\* is as old as now - 3600.
C5_Inv ==
    /\ CountNewer(request_times, clock - MinuteWindow) <= requests_per_minute
    /\ CountNewer(request_times, clock - HourWindow) <= requests_per_hour
C5_Step ==
    \A c \in Callers :
        (pc[c] = "lock" /\ pc'[c] # "lock") =>
            \A i \in DOMAIN request_times' :
                request_times'[i] > now'[c] - HourWindow
C5_WindowInvariant == []C5_Inv /\ [][C5_Step]_vars

\* the minute window is full, an earlier entry has been pruned, and a caller
\* is sleeping for capacity inside the gate
C5_Witness ==
    /\ CountNewer(request_times, clock - MinuteWindow) = requests_per_minute
    /\ Len(request_times) < Len(completions)
    /\ \E c \in Callers : pc[c] \in InGate

\* ---------------------------------------------- claims about request
\* the HTTP attempts of a log, in order
HttpEvents(l) == SelectSeq(l, LAMBDA e : e.kind = "http")
\* number of HTTP attempts among the first n entries of a log
HttpCount(l, n) == Len(HttpEvents(SubSeq(l, 1, n)))
Is429RetryAfter(e) == e.kind = "http" /\ e.v = 429 /\ e.h # <<>>
Is429Bare(e) == e.kind = "http" /\ e.v = 429 /\ e.h = <<>>
IsServerError(e) == e.kind = "http" /\ e.v >= 500
IsTransportError(e) == e.kind = "http" /\ e.v = TransportError
IsClientError(e) == e.kind = "http" /\ e.v >= 400 /\ e.v <= 499 /\ e.v # 429
AllOf(l, P(_)) == \A i \in DOMAIN l : P(l[i])

\* C2: 429 responses with Retry-After do not use up max_retries: as long as
\* every response so far was such a 429 the call has not failed, and when a
\* 200 follows k of them the call returns it.
C2_RetryAfterNotCounted ==
    \A c \in Callers :
        LET hs == HttpEvents(log[c]) IN
        /\ (auth_token # "" /\ AllOf(hs, Is429RetryAfter))
              => outcome[c] = "none"
        /\ (/\ hs # <<>>
            /\ hs[Len(hs)].v = 200
            /\ AllOf(SubSeq(hs, 1, Len(hs) - 1), Is429RetryAfter))
              => outcome[c] = "returned"

\* C3: when every attempt is answered with a status >= 500, request makes
\* exactly max_retries + 1 attempts and then raises; it never returns.
C3_ServerErrorAttempts ==
    \A c \in Callers :
        LET hs == HttpEvents(log[c]) IN
        (hs # <<>> /\ AllOf(hs, IsServerError)) =>
            /\ Len(hs) <= max_retries[c] + 1
            /\ outcome[c] # "returned"
            /\ (Len(hs) = max_retries[c] + 1) <=> (outcome[c] # "none")
            /\ outcome[c] # "none" => outcome[c] = "HTTPStatusError"

\* max_retries = MaxR, MaxR + 1 attempts all failed with >= 500, raised
C3_Witness ==
    LET hs == HttpEvents(log[Requester]) IN
    /\ max_retries[Requester] = MaxR
    /\ Len(hs) = MaxR + 1
    /\ AllOf(hs, IsServerError)
    /\ outcome[Requester] = "HTTPStatusError"

\* C6: a 429 with Retry-After: N is followed by one sleep of exactly N
\* seconds and then by another HTTP attempt, which is not issued before the
\* sleep is over.
C6_RetryAfterSleepThenAttempt ==
    \A c \in Callers :
        \A i \in DOMAIN log[c] :
            Is429RetryAfter(log[c][i]) =>
                /\ i + 1 <= Len(log[c])
                /\ log[c][i + 1].kind = "sleep"
                /\ log[c][i + 1].v = IntOf(log[c][i].h)
                /\ i + 2 <= Len(log[c]) =>
                      /\ log[c][i + 2].kind = "http"
                      /\ log[c][i + 2].t >= log[c][i + 1].t + log[c][i + 1].v
                /\ outcome[c] # "none" => i + 2 <= Len(log[c])

\* C7: a status in 400..499 other than 429 ends the call at once with the
\* status error: it is the last entry of the log (no sleep, no attempt after).
C7_ClientErrorRaises ==
    \A c \in Callers :
        \A i \in DOMAIN log[c] :
            IsClientError(log[c][i]) =>
                /\ i = Len(log[c])
                /\ outcome[c] = "HTTPStatusError"
                /\ pc[c] = "done"

\* a client error on a later attempt, with retries still left
C7_Witness ==
    LET l == log[Requester] IN
    /\ Len(l) >= 3
    /\ IsClientError(l[Len(l)])
    /\ HttpCount(l, Len(l)) <= max_retries[Requester]
    /\ outcome[Requester] = "HTTPStatusError"

\* C8: a 429 without Retry-After is handled like a status >= 500: while
\* retries remain it is followed by a backoff sleep of 2^attempt seconds.
C8_Bare429Retried ==
    \A c \in Callers :
        \A i \in DOMAIN log[c] :
            (/\ Is429Bare(log[c][i])
             /\ HttpCount(log[c], i - 1) < max_retries[c]) =>
                /\ i + 1 <= Len(log[c])
                /\ log[c][i + 1].kind = "sleep"
                /\ log[c][i + 1].v = 2 ^ HttpCount(log[c], i - 1)

\* C9: when every attempt fails in the transport, request makes exactly
\* max_retries + 1 attempts, sleeps after each but the last, and raises the
\* transport error.
C9_TransportErrorAttempts ==
    \A c \in Callers :
        LET hs == HttpEvents(log[c]) IN
        (hs # <<>> /\ AllOf(hs, IsTransportError)) =>
            /\ Len(hs) <= max_retries[c] + 1
            /\ (Len(hs) = max_retries[c] + 1) <=> (outcome[c] # "none")
            /\ outcome[c] # "none" => outcome[c] = "RequestError"
            /\ \A i \in DOMAIN log[c] :
                  /\ (i % 2 = 1) => log[c][i].kind = "http"
                  /\ (i % 2 = 0) => log[c][i].kind = "sleep"

\* max_retries = MaxR, MaxR + 1 transport failures, the last one raised
C9_Witness ==
    LET hs == HttpEvents(log[Requester]) IN
    /\ max_retries[Requester] = MaxR
    /\ Len(hs) = MaxR + 1
    /\ AllOf(hs, IsTransportError)
    /\ Len(log[Requester]) = 2 * MaxR + 1
    /\ outcome[Requester] = "RequestError"

\* C10: with no token set the call fails with ValueError before anything
\* else happens: no HTTP attempt, no sleep, the gate is not entered and
\* request_times is what it was.
C10_NoTokenFailsFast ==
    auth_token = "" =>
        \A c \in Callers :
            /\ pc[c] \in {"idle", "done"}
            /\ outcome[c] \in {"none", "ValueError"}
            /\ log[c] = <<>>
            /\ request_times = times0
            /\ completions = <<>>
            /\ calls = 0
            /\ lock = 0

\* the call has failed on a client whose Rate Window was not empty
C10_Witness ==
    /\ auth_token = ""
    /\ outcome[Requester] = "ValueError"
    /\ pc[Requester] = "done"
    /\ request_times # <<>>

\* C11: every HTTP attempt of a call to request comes right after one pass
\* through the rate gate that appended one timestamp, whatever the attempt's
\* outcome: the timestamps appended so far are as many as the attempts
\* issued (those answered, plus the one in flight), and the latest one is
\* the last entry of request_times.
C11_OneTimestampPerAttempt ==
    LET answered == HttpCount(log[Requester], Len(log[Requester]))
        issued == answered + (IF pc[Requester] = "http" THEN 1 ELSE 0)
    IN  /\ Len(completions) = issued
        /\ issued > 0 =>
              /\ request_times # <<>>
              /\ request_times[Len(request_times)] <= clock
        /\ pc[Requester] = "http" =>
              request_times[Len(request_times)] = now[Requester]

\* a finished call with MaxR + 1 attempts of three different outcomes
C11_Witness ==
    LET hs == HttpEvents(log[Requester]) IN
    /\ pc[Requester] = "done"
    /\ Len(hs) = MaxR + 1
    /\ Len(completions) = MaxR + 1
    /\ Cardinality({hs[i].v : i \in DOMAIN hs}) >= 3
\* ------------------------------------------------ claims about pagination
RECURSIVE FirstLast(_)
\* the first page from k on that has no meta.paging.next marker or an empty
\* batch of items
FirstLast(k) ==
    IF Items(ServerPage(k)) = <<>> \/ ~ServerPage(k).next
    THEN k ELSE FirstLast(k + 1)
LastPage == FirstLast(1)

RECURSIVE ConcatPages(_)
\* the items of pages 1..k, in server order
ConcatPages(k) ==
    IF k = 0 THEN <<>> ELSE ConcatPages(k - 1) \o Items(ServerPage(k))

\* the endpoint wraps every page in a dict
Enveloped == \A k \in DOMAIN server : HasGet(server[k])

\* C12: a pagination whose requests all succeed issues exactly n requests,
\* n the first page without a next marker or with an empty batch, and
\* returns the items of pages 1..n concatenated in server order; until then
\* it has yielded the items of the pages requested so far.
C12_AllPagesInOrder ==
    /\ pg_pc # "crashed"
    /\ Len(sent) <= LastPage
    /\ pg_pc = "done" =>
          /\ Len(sent) = LastPage
          /\ items_out = ConcatPages(LastPage)
    /\ pg_pc = "fetch" => items_out = ConcatPages(Len(sent))

\* For endpoints that wrap every page in a dict the statement of C12 holds.
EnvelopedPagesInOrder == Enveloped => C12_AllPagesInOrder

\* two pages of items, the second without a next marker, all returned
EnvelopedWitness ==
    /\ Enveloped
    /\ pg_pc = "done"
    /\ LastPage = 2
    /\ Len(sent) = 2
    /\ Len(items_out) >= 3

\* C13: the k-th request of a pagination carries page = k and
\* per_page = min(requested per_page, 200), whatever the caller's params
\* held under those keys.
C13_PageParams ==
    \A k \in DOMAIN sent :
        /\ sent[k]["page"] = k
        /\ sent[k]["per_page"] <= MaxPerPage
        /\ sent[k]["per_page"] <= per_page
        /\ sent[k]["per_page"] \in {per_page, MaxPerPage}

\* MaxPages + 1 requests of a pagination that asked for more than 200 per page and
\* passed its own page and per_page entries in params
C13_Witness ==
    /\ Len(sent) = MaxPages + 1
    /\ per_page > MaxPerPage
    /\ "page" \in DOMAIN params_arg.map
    /\ pg_pc = "done"

\* ---------------------------------------------- claims about process_query
Interpreted == nlp_pc = "done"
\* the normalized text of the query
Normal == Normalize(query)

\* rule r of the table has a pattern that is found in q
RuleMatches(table, r, q) ==
    \E k \in DOMAIN table[r].patterns : Search(table[r].patterns[k], q).ok
MatchingRules(table, q) == {r \in DOMAIN table : RuleMatches(table, r, q)}

\* C14: each table contributes at most one descriptor, the one of its first
\* rule in table order that has a matching pattern, whatever the other table
\* and the later rules of the same table match.
C14_FirstRuleWins ==
    Interpreted =>
        LET am == MatchingRules(api_patterns, Normal)
            cm == MatchingRules(cli_patterns, Normal)
        IN  /\ Len(result.api_calls) <= 1
            /\ Len(result.cli_calls) <= 1
            /\ am # {} =>
                  /\ Len(result.api_calls) = 1
                  /\ result.api_calls[1].endpoint = api_patterns[Min(am)].endpoint
                  /\ result.api_calls[1].method = api_patterns[Min(am)].method
            /\ cm # {} =>
                  /\ Len(result.cli_calls) = 1
                  /\ result.cli_calls[1].command = cli_patterns[Min(cm)].service
                  /\ result.cli_calls[1].args[1] = cli_patterns[Min(cm)].command

\* a query that two CLI rules match
C14_Witness ==
    /\ Interpreted
    /\ Cardinality(MatchingRules(cli_patterns, Normal)) >= 2
    /\ Len(result.cli_calls) = 1

\* number of descriptors produced
TotalCalls == Len(result.api_calls) + Len(result.cli_calls)
\* number of individual patterns of both tables found in the normalized query
PatternsFound ==
    Cardinality({rp \in PatternIndex(api_patterns) :
                    Search(api_patterns[rp[1]].patterns[rp[2]], Normal).ok})
    + Cardinality({rp \in PatternIndex(cli_patterns) :
                    Search(cli_patterns[rp[1]].patterns[rp[2]], Normal).ok})
\* the number of rules of both tables
RuleCount == Len(api_patterns) + Len(cli_patterns)

\* C15: the score is 0.1 without a descriptor; else 0.5, plus 0.3 / (number
\* of rules) per individual pattern found, plus 0.1 for more than one
\* descriptor, at most 1.  It lies in [0, 1] and is higher with a descriptor
\* than without one.  (Thousandths; RuleCount * the sum avoids the division.)
C15_ConfidenceScore ==
    Interpreted =>
        LET score == result.confidence_score
            sum == RuleCount * BaseConfidence + PatternBonus * PatternsFound
                   + RuleCount * (IF TotalCalls > 1 THEN MultiCallBonus ELSE 0)
        IN  /\ 0 <= score /\ score <= ConfidenceCap
            /\ TotalCalls = 0 => score = NoMatchConfidence
            /\ TotalCalls > 0 =>
                  /\ score > NoMatchConfidence
                  /\ RuleCount * score =
                        IF sum < RuleCount * ConfidenceCap
                        THEN sum ELSE RuleCount * ConfidenceCap

\* two descriptors and two patterns found
C15_Witness ==
    /\ Interpreted
    /\ TotalCalls = 2
    /\ PatternsFound >= 2
    /\ result.confidence_score >= BaseConfidence + MultiCallBonus

\* the normalized query contains one of the health rule's patterns
MatchesHealth ==
    \/ Contains(Normal, "health")
    \/ Contains(Normal, "status")
    \/ Contains(Normal, "alive")
    \/ Contains(Normal, "running")

\* C16: a query whose normalized text matches a pattern of the health rule
\* yields exactly one API descriptor, /health with GET, and a score above 0.5.
C16_HealthQuery ==
    Interpreted /\ MatchesHealth =>
        /\ Len(result.api_calls) = 1
        /\ result.api_calls[1].endpoint = "/health"
        /\ result.api_calls[1].method = GET
        /\ result.confidence_score > BaseConfidence

\* a health query that also matches the list_queries rule, written with a
\* capital
C16_Witness ==
    /\ Interpreted
    /\ MatchesHealth
    /\ query # Normal
    /\ RuleMatches(api_patterns, Len(api_patterns), Normal)

\* no pattern of either table and no keyword combination of _extract_intent
\* is found in the normalized query
MatchesNothing ==
    /\ MatchingRules(api_patterns, Normal) = {}
    /\ MatchingRules(cli_patterns, Normal) = {}
    /\ \/ ~AnyIn({"show", "list", "display", "get", "create", "add", "new"},
                 Normal)
       \/ /\ ~AnyIn({"show", "list", "display", "get"}, Normal)
          /\ ~Contains(Normal, "custom field")
       \/ ~AnyIn({"query", "queries", "clio", "custom field"}, Normal)

\* C17: a query that matches nothing gets empty descriptor lists, the score
\* 0.1, the 'no action' sentence and the example suggestions.
C17_UnknownQuery ==
    Interpreted /\ MatchesNothing =>
        /\ result.api_calls = <<>>
        /\ result.cli_calls = <<>>
        /\ result.confidence_score = NoMatchConfidence
        /\ result.confidence_score < BaseConfidence
        /\ result.interpretation = "No specific action identified"
        /\ result.suggested_actions = ExampleSuggestions

\* an unknown query of several words
C17_Witness ==
    /\ Interpreted
    /\ MatchesNothing
    /\ Normal # ""
    /\ Contains(Normal, " ")
    /\ result.api_calls = <<>>

\* the CLI rule that wins for the normalized query, its first matching
\* pattern and the groups that pattern captures
WinningCliRule == Min(MatchingRules(cli_patterns, Normal))
WinningCliGroups ==
    LET ps == cli_patterns[WinningCliRule].patterns
        k == Min({i \in DOMAIN ps : Search(ps[i], Normal).ok})
    IN  Search(ps[k], Normal).groups
CapturesGroups ==
    /\ MatchingRules(cli_patterns, Normal) # {}
    /\ WinningCliGroups # <<>>

IsStripped(a, g) ==
    /\ \E i \in 1..(Len(g) + 1) :
          /\ \A j \in 1..(i - 1) : CharAt(g, j) = " "
          /\ Occurs(g, a, i) \/ a = ""
          /\ \A j \in (i + Len(a))..Len(g) : CharAt(g, j) = " "
    /\ a # "" => CharAt(a, 1) # " " /\ CharAt(a, Len(a)) # " "

PhraseOfCli(call) ==
    IF call.command = CLIO_SERVICE /\ call.args[1] = "list"
    THEN "List items from Clio service"
    ELSE IF call.command = CLIO_SERVICE /\ call.args[1] = "search"
    THEN "Search Clio service"
    ELSE IF call.command = CUSTOM_FIELDS_MANAGER /\ call.args[1] = "list"
    THEN "List custom fields"
    ELSE "Create a new custom field"
\* the fixed phrase of the rule an API descriptor comes from
PhraseOfApi(call) ==
    IF call.endpoint = "/health" THEN "Check system health status"
    ELSE "List processed queries"

\* C19: the interpretation is the phrases of the rules that produced the
\* descriptors, API first, joined in descriptor order, whatever the groups
\* captured; it is the 'no action' sentence exactly when there is no
\* descriptor.
C19_InterpretationByRule ==
    Interpreted =>
        /\ result.interpretation = "No specific action identified"
              <=> TotalCalls = 0
        /\ TotalCalls > 0 =>
              result.interpretation =
                  JoinWith("; ",
                      [i \in DOMAIN result.api_calls |->
                          PhraseOfApi(result.api_calls[i])]
                      \o [i \in DOMAIN result.cli_calls |->
                          PhraseOfCli(result.cli_calls[i])])

\* the normalized query asks for the query list: a list_queries pattern is
\* found in it
AsksForQueries ==
    \/ Contains(Normal, "list queries")
    \/ Contains(Normal, "show queries")
    \/ Contains(Normal, "get queries")
    \/ Contains(Normal, "query history")
LimitFilter == Search([form |-> "digits", text |-> ""], Normal)
StatusFilter == Search([form |-> "word", text |-> "status "], Normal)

\* C20: a query for the query list with a filter yields a /queries GET
\* descriptor whose payload has limit = n for 'show n', 'limit n' or 'top n'
\* and status = w for 'status w'.
C20_FilterPayload ==
    Interpreted /\ AsksForQueries /\ (LimitFilter.ok \/ StatusFilter.ok) =>
        /\ Len(result.api_calls) = 1
        /\ result.api_calls[1].endpoint = "/queries"
        /\ result.api_calls[1].method = GET
        /\ LimitFilter.ok =>
              /\ "limit" \in DOMAIN result.api_calls[1].payload
              /\ result.api_calls[1].payload["limit"]
                    = IntOfDigits(LimitFilter.groups[1])
        /\ StatusFilter.ok =>
              /\ "status" \in DOMAIN result.api_calls[1].payload
              /\ result.api_calls[1].payload["status"] = StatusFilter.groups[1]

\* C25: the keyword fallback is consulted only when neither table produced a
\* descriptor (otherwise the result holds exactly the descriptors of the
\* tables), it contributes at most one descriptor in total, and a result with
\* two descriptors comes from an API rule and a CLI rule that both matched.
C25_FallbackOnlyWhenEmpty ==
    Interpreted =>
        /\ (api_match # <<>> \/ cli_match # <<>>) =>
              /\ result.api_calls = api_match
              /\ result.cli_calls = cli_match
        /\ (api_match = <<>> /\ cli_match = <<>>) => TotalCalls <= 1
        /\ TotalCalls <= 2
        /\ TotalCalls = 2 =>
              /\ MatchingRules(api_patterns, Normal) # {}
              /\ MatchingRules(cli_patterns, Normal) # {}
              /\ Len(result.api_calls) = 1
              /\ Len(result.cli_calls) = 1

\* no rule of either table matches and the fallback synthesizes a descriptor
C25_Witness ==
    /\ Interpreted
    /\ api_match = <<>>
    /\ cli_match = <<>>
    /\ TotalCalls = 1

\* C30: paginated_request and get_all leave the mapping the caller passed
\* unchanged: during and after the call it holds exactly the keys and values
\* it held when it was passed.
C30_CallerParamsUnchanged ==
    pg_pc # "idle" => caller_params = params_arg.map

\* ------------------------------------- claims about retries and giving up
IsTransient(e) == IsServerError(e) \/ IsTransportError(e)
\* number of transient failures in a row that end a sequence of attempts
RECURSIVE TransientRun(_)
TransientRun(hs) ==
    IF hs = <<>> \/ ~IsTransient(hs[Len(hs)]) THEN 0
    ELSE 1 + TransientRun(SubSeq(hs, 1, Len(hs) - 1))
\* the log of c up to entry i - 1, its HTTP attempts
AttemptsBefore(c, i) == HttpEvents(SubSeq(log[c], 1, i - 1))

\* C22: the wait after the k-th consecutive transient failure (status >= 500
\* or transport error; k counted from 0) is 2^k seconds, and the attempt
\* after which the call gives up is followed by no wait.
C22_ExponentialBackoff ==
    \A c \in Callers :
        \A i \in DOMAIN log[c] :
            IsTransient(log[c][i]) =>
                IF i = Len(log[c])
                THEN outcome[c] \in {"HTTPStatusError", "RequestError"}
                ELSE /\ log[c][i + 1].kind = "sleep"
                     /\ log[c][i + 1].v = 2 ^ TransientRun(AttemptsBefore(c, i))

\* the wait after a transient failure is 2^attempt for the loop index
\* `attempt`, which counts every earlier iteration of the loop
BackoffByLoopIndex ==
    \A c \in Callers :
        \A i \in DOMAIN log[c] :
            (IsTransient(log[c][i]) /\ i < Len(log[c])) =>
                /\ log[c][i + 1].kind = "sleep"
                /\ log[c][i + 1].v = 2 ^ Len(AttemptsBefore(c, i))

\* the call of c has raised after at least one HTTP attempt
GaveUp(c) ==
    /\ outcome[c] \in {"HTTPStatusError", "RequestError", "HTTPError"}
    /\ HttpEvents(log[c]) # <<>>
LastAttempt(c) == HttpEvents(log[c])[Len(HttpEvents(log[c]))]

\* C23: the error request raises when it gives up carries the last observed
\* outcome: the status of the last response or the last transport
\* exception, also when the attempts were used up by 429 responses with
\* Retry-After.
C23_TerminalErrorCarriesLast ==
    \A c \in Callers :
        GaveUp(c) =>
            /\ carried[c] # <<>>
            /\ carried[c][1].status = LastAttempt(c).v

\* the same for the errors raised from inside the loop (lines 127 and 137)
RaisedInLoopCarriesLast ==
    \A c \in Callers :
        (GaveUp(c) /\ outcome[c] # "HTTPError") =>
            /\ carried[c] # <<>>
            /\ carried[c][1].status = LastAttempt(c).v
            /\ carried[c][1].ra = LastAttempt(c).h

\* HTTP attempts of c issued so far: those answered and the one in flight
Issued(c) ==
    Len(HttpEvents(log[c])) + (IF pc[c] = "http" THEN 1 ELSE 0)

\* C28: whatever the server and the transport do, one call to request
\* issues at most max_retries + 1 HTTP attempts, and a call that was started
\* ends: it returns a response or raises.
C28_BoundedAttemptsAndTermination ==
    /\ [](\A c \in Callers : Issued(c) <= max_retries[c] + 1)
    /\ \A c \in Callers :
          (pc[c] # "idle") ~> (pc[c] = "done" /\ outcome[c] # "none")

\* a call that used all its MaxR + 1 attempts on 429 responses with
\* Retry-After and transient failures, and ended
C28_Witness ==
    LET hs == HttpEvents(log[Requester]) IN
    /\ max_retries[Requester] = MaxR
    /\ Len(hs) = MaxR + 1
    /\ \E i \in DOMAIN hs : Is429RetryAfter(hs[i])
    /\ \E i \in DOMAIN hs : IsTransient(hs[i])
    /\ pc[Requester] = "done"
    /\ outcome[Requester] # "none"

\* ------------------------------------------ claims about waiting callers
\* a caller that sleeps for capacity sleeps until the oldest entry of the
\* full window has aged out: exactly so for the hourly window, and no
\* shorter for the per-minute window
C24_WaitInv ==
    \A c \in Callers :
        /\ pc[c] = "hoursleep" =>
              /\ Len(request_times) >= requests_per_hour
              /\ wake[c] = request_times[1] + HourWindow
        /\ pc[c] = "minutesleep" =>
              LET recent == RecentRequests(request_times, now[c]) IN
              /\ Len(recent) >= requests_per_minute
              /\ wake[c] >= recent[1] + MinuteWindow
              /\ wake[c] <= clock + MinuteWindow
\* a caller that stops sleeping for capacity has recorded its timestamp,
\* released the lock and returned
C24_Step ==
    \A c \in Callers :
        (pc[c] \in InGate /\ pc'[c] \notin InGate) =>
            /\ request_times' = Append(request_times, now[c])
            /\ Len(completions') = Len(completions) + 1
            /\ lock' = 0
            /\ pc'[c] = "idle"

CancelledInGate(c) == cancelled_at[c] = "none" /\ cancelled_at'[c] \in InGate
C29_CancelStep ==
    \A c \in Callers :
        CancelledInGate(c) =>
            /\ outcome'[c] = "CancelledError"
            /\ pc'[c] = "cancelled"
            /\ lock = c /\ lock' = 0
            /\ request_times' = request_times
            /\ completions' = completions
\* nothing is done for a cancelled caller afterwards: no attempt, no sleep,
\* no pass through the gate, and request_times changes only by the prune and
\* the append of another caller's pass
C29_AfterCancel ==
    \A c \in Callers :
        cancelled_at[c] \in InGate =>
            /\ pc'[c] = "cancelled" /\ pc[c] = "cancelled"
            /\ log'[c] = log[c]
            /\ attempt'[c] = attempt[c]
            /\ outcome'[c] = "CancelledError"
            /\ lock' # c
            /\ request_times' # request_times =>
                  \E o \in Callers \ {c} :
                      /\ pc[o] # pc'[o]
                      /\ request_times' \in
                            { Prune(request_times, now'[o]),
                              Append(Prune(request_times, now'[o]), now'[o]),
                              Append(request_times, now'[o]) }

\* C29: a caller cancelled while it sleeps for capacity inside the gate gets
\* the cancellation, no HTTP attempt or retry is made and no timestamp is
\* appended for it, and the lock is released, so that a caller waiting at
\* the lock goes on.
C29_CancelInsideGate ==
    /\ [][C29_CancelStep]_vars
    /\ [][C29_AfterCancel]_vars
    /\ \A c \in Callers : (pc[c] = "lock") ~> (pc[c] # "lock")

\* a caller was cancelled in the gate, and the caller that waited behind it
\* at the lock has since passed the gate and had its attempt answered
C29_Witness ==
    \E c, o \in Callers :
        /\ c # o
        /\ cancelled_at[c] \in InGate
        /\ log[c] = <<>>
        /\ now[o] >= now[c]
        /\ log[o] # <<>>
        /\ Len(completions) = 1

\* ---------------------------------------------- claims about two clients
\* the caller c takes a step of its pass through the gate
GateStep(c) == pc[c] \in InGate \cup {"lock"} /\ pc'[c] # pc[c]
\* what c's pass through the gate decides on the window `times`: "hoursleep",
\* "minutesleep", or "idle" for passing at once
GateDecision(times, n) ==
    IF HourFull(Prune(times, n)) THEN "hoursleep"
    ELSE IF MinuteFull(RecentRequests(Prune(times, n), n)) THEN "minutesleep"
    ELSE "idle"

\* a caller asleep in the gate holds the lock of its own client, and the
\* lock of a client is held by one of its own callers only
C26_Inv ==
    /\ \A c \in Callers : pc[c] \in InGate => lock_of[ClientOf(c)] = c
    /\ \A k \in Clients : lock_of[k] # 0 => ClientOf(lock_of[k]) = k
\* a step of a caller's pass leaves the other client's window and lock as
\* they are; a caller at the lock is decided on by its own client's window
\* alone, and is let in whenever its own client's lock is free
C26_Step ==
    \A c \in Callers :
        GateStep(c) =>
            /\ \A k \in Clients \ {ClientOf(c)} :
                  /\ times_of'[k] = times_of[k]
                  /\ lock_of'[k] = lock_of[k]
            /\ pc[c] = "lock" =>
                  /\ lock_of[ClientOf(c)] = 0
                  /\ pc'[c] = GateDecision(times_of[ClientOf(c)], clock)
C26_NotHeldUp ==
    \A c \in Callers :
        (pc[c] = "lock" /\ lock_of[ClientOf(c)] = 0) => ENABLED ClientEnter(c)

\* C26: each client has a Rate Window and a lock of its own: a pass through
\* one client's gate does not read or change the other client's
\* request_times and does not wait for the other client's lock.
C26_IndependentClients ==
    /\ []C26_Inv
    /\ []C26_NotHeldUp
    /\ [][C26_Step]_vars

\* a caller of client 1 sleeps for capacity holding its lock, client 1's
\* window is full, and a caller of client 2 has meanwhile passed client 2's
\* gate at once
C26_Witness ==
    /\ pc[Requester] \in InGate
    /\ lock_of[1] = Requester
    /\ lock_of[2] = 0
    /\ times_of[2] # <<>>
    /\ times_of[2][Len(times_of[2])] >= now[Requester]
    /\ times_of[2][Len(times_of[2])] < wake[Requester]

\* ------------------------------------------- claims about CLI execution
\* the process ran to completion and execute_command has ended
CliDone == cli_pc # "idle" /\ proc.exists

\* the result carries the process's stdout, stderr and exit code
CarriesOutput ==
    /\ ~IsRaised(cli_result)
    /\ cli_result.stdout = proc.stdout
    /\ cli_result.stderr = proc.stderr
    /\ cli_result.exit_code = proc.returncode
\* the parsed form is attached exactly when stdout looks like JSON and is
\* JSON, and it is the value json.loads gives, an object or an array
CarriesParsed ==
    /\ ~IsRaised(cli_result)
    /\ cli_result.parsed_output =
          (IF LooksLikeJson(proc.stdout) THEN JsonLoads(proc.stdout) ELSE <<>>)

\* C27: the result of a CLI command whose process ran to completion, from
\* CLIManager.execute_command and from CLIService.execute_command, carries
\* the raw stdout, the stderr and the exit code of the process; stdout that
\* begins with '{' or '[' is parsed and the parsed object or array is
\* attached; a failed parse changes nothing else.
C27_CliResultCarriesOutput ==
    CliDone => CarriesOutput /\ CarriesParsed

\* the same for CLIManager.execute_command on output that is UTF-8 text, and
\* for CLIService.execute_command on such output that is no JSON array
ManagerCarriesOutput ==
    (CliDone /\ proc.utf8
        /\ (cli_pc = "manager"
            \/ \A v \in DOMAIN JsonLoads(proc.stdout) :
                   JsonLoads(proc.stdout)[v].kind # "array"))
    => CarriesOutput /\ CarriesParsed

====
